---- MODULE Spec2Model ----
(***************************************************************************)
(* Model of swarm-deployer: the ECR event decoder (events.rs), the service *)
(* catalog and update planner (main.rs) and the reconciliation loop of     *)
(* main() against the SQS queue, the ECR registry and the Docker swarm.    *)
(*                                                                         *)
(* Strings are sequences of characters; a multi-character element stands   *)
(* for a run of characters none of which is '@'.  Option<T> is a sequence  *)
(* of length 0 (None) or 1 (Some).                                         *)
(***************************************************************************)
EXTENDS Integers, Sequences, FiniteSets, TLC

VARIABLES
    pc,                \* position of main(): poll, list, process, auth, update, ack, failed, panicked
    queue,             \* SQS queue: sequence of messages not yet deleted
    sent,              \* number of messages ever put on the queue
    batch,             \* `messages` of the current loop iteration
    idx,               \* position of the for loop in batch (1-based)
    swarm,             \* the orchestrator's live services, in listing order
    services,          \* result of candidate_services() in this iteration
    services_by_image, \* result of build_service_index() in this iteration
    listCount,         \* listings made since the last poll
    inflight,          \* requests awaiting their response
    log,               \* history of the per-message steps and calls
    opt,               \* command line options (filter_label)
    externals,         \* updates made to the swarm by other clients
    call               \* a pure function applied to an input: [fn, arg, done, ret]

vars == <<pc, queue, sent, batch, idx, swarm, services, services_by_image,
          listCount, inflight, log, opt, externals, call>>

----------------------------------------------------------------------------
(* Bounds *)
MaxMsgs == 2
MaxBatch == 2
MaxExternal == 1

----------------------------------------------------------------------------
(* Option *)
None == <<>>
Some(x) == <<x>>
IsSome(o) == Len(o) = 1
Unwrap(o) == o[1]

(* String literals *)
PUSH == <<"PUSH">>
SUCCESS == <<"SUCCESS">>
AT == "@"
STACK_IMAGE_LABEL == "com.docker.stack.image"

Accounts == {<<"123456789012">>}
KnownRegions == {<<"eu-west-1">>}
Regions == KnownRegions \cup {<<"rp-north-1">>}
Digests == {<<"sha256:1234">>, <<"sha256:abcd">>}

----------------------------------------------------------------------------
(* events.rs *)

\* A JSON member: absent, present and not a string, or a string.
Absent == [k |-> "absent", s |-> <<>>]
NotStr == [k |-> "other", s |-> <<>>]
Str(s) == [k |-> "str", s |-> s]

\* serde_json::Map::get
Get(v) == IF v.k = "absent" THEN None ELSE Some(v)
\* serde_json::Value::as_str
AsStr(v) == IF v.k = "str" THEN Some(v.s) ELSE None

\* Event::image
Image(e) ==
    e.account_id \o <<".dkr.ecr.">> \o e.region \o <<".amazonaws.com/">>
        \o e.repository_name \o <<":">> \o e.image_tag

\* extract_string_value, mutated: an absent member reads as the empty string
ExtractStringValueOrEmpty(v) ==
    IF Get(v) = None THEN [panic |-> FALSE, s |-> <<>>]
    ELSE IF AsStr(v) = None THEN [panic |-> TRUE, s |-> <<>>]
    ELSE [panic |-> FALSE, s |-> Unwrap(AsStr(v))]

\* extract_string_value: the string, or a panic
ExtractStringValue(v) ==
    IF Get(v) = None THEN [panic |-> TRUE, s |-> <<>>]
    ELSE IF AsStr(v) = None THEN [panic |-> TRUE, s |-> <<>>]
    ELSE [panic |-> FALSE, s |-> Unwrap(AsStr(v))]

ParsePanic == [panic |-> TRUE, val |-> None]
ParseNone == [panic |-> FALSE, val |-> None]
ParseSome(e) == [panic |-> FALSE, val |-> Some(e)]

\* The test of events.rs:41-42, with `?` and the short-circuit of &&:
\* "none" when a `?` returns None, else "true" or "false".
IsPushSuccess(p) ==
    IF Get(p.action) = None THEN "none"
    ELSE IF AsStr(p.action) # Some(PUSH) THEN "false"
    ELSE IF Get(p.result) = None THEN "none"
    ELSE IF AsStr(p.result) # Some(SUCCESS) THEN "false"
    ELSE "true"

\* The Some branch, mutated: digest and tag swapped
BuildEventSwapped(p) ==
    LET a == ExtractStringValue(p.account)
        r == ExtractStringValue(p.region)
        n == ExtractStringValue(p.repo)
        d == ExtractStringValue(p.digest)
        t == ExtractStringValue(p.tag)
    IN  IF a.panic \/ r.panic \/ n.panic \/ d.panic \/ t.panic THEN ParsePanic
        ELSE ParseSome([account_id |-> a.s, region |-> r.s, repository_name |-> n.s,
                        image_digest |-> t.s, image_tag |-> d.s])

\* The Some(Event {..}) branch of parse_ecr_event
BuildEvent(p) ==
    LET a == ExtractStringValue(p.account)
        r == ExtractStringValue(p.region)
        n == ExtractStringValue(p.repo)
        d == ExtractStringValue(p.digest)
        t == ExtractStringValue(p.tag)
    IN  IF a.panic \/ r.panic \/ n.panic \/ d.panic \/ t.panic THEN ParsePanic
        ELSE ParseSome([account_id |-> a.s, region |-> r.s, repository_name |-> n.s,
                        image_digest |-> d.s, image_tag |-> t.s])

\* parse_ecr_event, mutated: the fields are extracted before the test
ParseEcrEventEager(p) ==
    IF p.json # "object" THEN ParsePanic
    ELSE IF p.detail # "obj" THEN ParsePanic
    ELSE IF BuildEvent(p).panic THEN ParsePanic
    ELSE IF IsPushSuccess(p) = "true" THEN BuildEvent(p)
    ELSE ParseNone

\* parse_ecr_event
ParseEcrEvent(p) ==
    IF p.json # "object" THEN ParsePanic           \* expect("event to be json")
    ELSE IF p.detail # "obj" THEN ParsePanic       \* expect(detail) / expect(a detail object)
    ELSE IF IsPushSuccess(p) = "true" THEN BuildEvent(p)
    ELSE ParseNone

\* Notification payloads
JStr(S) == {Absent, NotStr} \cup {Str(s) : s \in S}
NoPayload(j) ==
    [json |-> j, account |-> Absent, region |-> Absent, detail |-> "absent",
     action |-> Absent, result |-> Absent, repo |-> Absent, digest |-> Absent,
     tag |-> Absent]
Payloads ==
    {NoPayload("invalid"), NoPayload("nonobject")}
    \cup {[NoPayload("object") EXCEPT !.account = a, !.region = r, !.detail = d] :
            a \in JStr(Accounts), r \in JStr(Regions), d \in {"absent", "other"}}
    \cup [json : {"object"}, account : JStr(Accounts), region : JStr(Regions),
          detail : {"obj"},
          action : JStr({PUSH, <<"DELETE">>}), result : JStr({SUCCESS, <<"FAILURE">>}),
          repo : JStr({<<"bittrance/ze-image">>}), digest : JStr(Digests),
          tag : JStr({<<"latest">>})]

----------------------------------------------------------------------------
(* main.rs: services, catalog, update plan *)

LabelKeys == {STACK_IMAGE_LABEL, "some"}
NoLabels == [k \in LabelKeys |-> None]

\* bollard Service: id, version.index and the fields of spec the code reads or
\* writes (labels, task_template.container_spec(.image), task_template.force_update);
\* name stands for every other field of the spec.
Service(id, version, labels, has_container, image) ==
    [id |-> id, version |-> version,
     spec |-> [name |-> <<"ze-service">>, labels |-> labels,
               has_container |-> has_container, image |-> image,
               force_update |-> None]]

\* usize::max_value(), within TLC's integers; only compared with string lengths
UsizeMax == 2147483647

\* str::find(char), mutated: the position of the last occurrence (rfind)
FindLast(s, c) ==
    IF \E i \in 1..Len(s) : s[i] = c
    THEN Some((CHOOSE i \in 1..Len(s) : s[i] = c /\ \A j \in (i+1)..Len(s) : s[j] # c) - 1)
    ELSE None

\* str::find(char): 0-based position of the first occurrence
Find(s, c) ==
    IF \E i \in 1..Len(s) : s[i] = c
    THEN Some((CHOOSE i \in 1..Len(s) : s[i] = c /\ \A j \in 1..(i-1) : s[j] # c) - 1)
    ELSE None

\* String::truncate: no effect when new_len is not less than the length
Truncate(s, new_len) == IF new_len >= Len(s) THEN s ELSE SubSeq(s, 1, new_len)

\* Option::unwrap_or
UnwrapOr(o, d) == IF IsSome(o) THEN Unwrap(o) ELSE d

\* extract_service_image
ExtractServiceImage(service) ==
    IF IsSome(service.spec.labels[STACK_IMAGE_LABEL])
    THEN service.spec.labels[STACK_IMAGE_LABEL]
    ELSE IF service.spec.has_container /\ IsSome(service.spec.image)
         THEN Some(Truncate(Unwrap(service.spec.image),
                            UnwrapOr(Find(Unwrap(service.spec.image), AT), UsizeMax)))
         ELSE None

\* The filter closure of build_service_index
PassesFilter(service, filter) ==
    IF IsSome(filter)
    THEN service.spec.labels[Unwrap(filter)[1]] = Some(Unwrap(filter)[2])
    ELSE TRUE

EmptyIndex == [x \in {} |-> x]

\* HashMap::insert, mutated: an existing entry is kept (entry().or_insert())
InsertIfAbsent(map, k, v) ==
    [x \in DOMAIN map \cup {k} |-> IF x \in DOMAIN map THEN map[x] ELSE v]

\* HashMap::insert
Insert(map, k, v) == [x \in DOMAIN map \cup {k} |-> IF x = k THEN v ELSE map[x]]

\* filter().map().collect() of build_service_index, over the first n services;
\* unwrap() panics on a service without an image reference
RECURSIVE BuildFrom(_, _, _)
BuildFrom(svcs, n, filter) ==
    IF n = 0 THEN [panic |-> FALSE, map |-> EmptyIndex]
    ELSE LET rest == BuildFrom(svcs, n - 1, filter)
             ref == ExtractServiceImage(svcs[n])
         IN  IF rest.panic THEN rest
             ELSE IF ~PassesFilter(svcs[n], filter) THEN rest
             ELSE IF ref = None THEN [panic |-> TRUE, map |-> EmptyIndex]
             ELSE [panic |-> FALSE, map |-> Insert(rest.map, Unwrap(ref), svcs[n])]

\* build_service_index
BuildServiceIndex(svcs, o) == BuildFrom(svcs, Len(svcs), o.filter_label)

\* HashMap::get
Lookup(map, k) == IF k \in DOMAIN map THEN Some(map[k]) ELSE None

\* update_spec, mutated: the image is set only where there was one
UpdateSpecIfImage(service, event) ==
    [service.spec EXCEPT
        !.force_update = Some(service.version),
        !.image = IF service.spec.has_container /\ IsSome(@)
                  THEN Some(Image(event) \o <<AT>> \o event.image_digest)
                  ELSE @]

\* update_spec, mutated: the stack-image label is rewritten as well
UpdateSpecRelabels(service, event) ==
    [service.spec EXCEPT
        !.force_update = Some(service.version),
        !.labels = [@ EXCEPT ![STACK_IMAGE_LABEL] = Some(Image(event))],
        !.image = IF service.spec.has_container
                  THEN Some(Image(event) \o <<AT>> \o event.image_digest)
                  ELSE @]

\* update_spec, mutated: the image is set without the digest
UpdateSpecNoDigest(service, event) ==
    [service.spec EXCEPT
        !.force_update = Some(service.version),
        !.image = IF service.spec.has_container THEN Some(Image(event)) ELSE @]

\* update_spec
UpdateSpec(service, event) ==
    [service.spec EXCEPT
        !.force_update = Some(service.version),
        !.image = IF service.spec.has_container
                  THEN Some(Image(event) \o <<AT>> \o event.image_digest)
                  ELSE @]

\* UpdateServiceOptions.version, mutated: a token one ahead of the listing
NextVersionToken(service) == service.version + 1

\* UpdateServiceOptions { version: service.version.index, .. }
VersionToken(service) == service.version

\* Region::from_str(..).unwrap(): panics on a name that is not an AWS region
RegionFromStr(s) == [panic |-> s \notin KnownRegions]

----------------------------------------------------------------------------
(* main.rs: registry credentials.  Tokens are sequences of characters, the  *)
(* decoded text is a sequence of byte values.                               *)

B64Alphabet == <<
    "A", "B", "C", "D", "E", "F", "G", "H", "I", "J", "K", "L", "M", "N", "O", "P",
    "Q", "R", "S", "T", "U", "V", "W", "X", "Y", "Z", "a", "b", "c", "d", "e", "f",
    "g", "h", "i", "j", "k", "l", "m", "n", "o", "p", "q", "r", "s", "t", "u", "v",
    "w", "x", "y", "z", "0", "1", "2", "3", "4", "5", "6", "7", "8", "9", "+", "/">>

B64Value(c) == (CHOOSE i \in 1..64 : B64Alphabet[i] = c) - 1

RECURSIVE TrailingPads(_)
TrailingPads(t) ==
    IF Len(t) > 0 /\ t[Len(t)] = "=" THEN 1 + TrailingPads(SubSeq(t, 1, Len(t) - 1)) ELSE 0

\* The bytes of the symbols: 4 symbols give 3 bytes, a last group of 3 gives 2,
\* of 2 gives 1
RECURSIVE DecodeSymbols(_)
DecodeSymbols(b) ==
    IF Len(b) < 2 THEN <<>>
    ELSE LET v1 == B64Value(b[1])
             v2 == B64Value(b[2])
             v3 == IF Len(b) >= 3 THEN B64Value(b[3]) ELSE 0
             v4 == IF Len(b) >= 4 THEN B64Value(b[4]) ELSE 0
             n == v1 * 262144 + v2 * 4096 + v3 * 64 + v4
             b1 == n \div 65536
             b2 == (n \div 256) % 256
             b3 == n % 256
         IN  IF Len(b) = 2 THEN <<b1>>
             ELSE IF Len(b) = 3 THEN <<b1, b2>>
             ELSE <<b1, b2, b3>> \o DecodeSymbols(SubSeq(b, 5, Len(b)))

\* The bits of the last group that belong to no byte
TrailingBits(b) ==
    IF Len(b) % 4 = 2 THEN B64Value(b[Len(b)]) % 16
    ELSE IF Len(b) % 4 = 3 THEN B64Value(b[Len(b)]) % 4
    ELSE 0

\* base64::decode (standard alphabet; padding optional, canonical when present)
Base64Decode(t) ==
    LET pads == TrailingPads(t)
        b == SubSeq(t, 1, Len(t) - pads)
        symbols == {B64Alphabet[i] : i \in 1..64}
    IN  IF \E i \in 1..Len(b) : b[i] \notin symbols THEN [err |-> TRUE, bytes |-> <<>>]
        ELSE IF Len(b) % 4 = 1 THEN [err |-> TRUE, bytes |-> <<>>]
        ELSE IF pads > 0 /\ (pads > 2 \/ (Len(b) + pads) % 4 # 0) THEN [err |-> TRUE, bytes |-> <<>>]
        ELSE IF TrailingBits(b) # 0 THEN [err |-> TRUE, bytes |-> <<>>]
        ELSE [err |-> FALSE, bytes |-> DecodeSymbols(b)]

\* String::from_utf8, on texts whose bytes above 127 never form a UTF-8 sequence
FromUtf8(bytes) == [err |-> \E i \in 1..Len(bytes) : bytes[i] > 127]

COLON == 58

\* str::splitn(2, ':'), mutated: split at the last separator (rsplitn)
Splitn2Last(text, sep) ==
    IF IsSome(FindLast(text, sep))
    THEN <<SubSeq(text, 1, Unwrap(FindLast(text, sep))),
           SubSeq(text, Unwrap(FindLast(text, sep)) + 2, Len(text))>>
    ELSE <<text>>

\* str::splitn(2, ':')
Splitn2(text, sep) ==
    IF IsSome(Find(text, sep))
    THEN <<SubSeq(text, 1, Unwrap(Find(text, sep))),
           SubSeq(text, Unwrap(Find(text, sep)) + 2, Len(text))>>
    ELSE <<text>>

NoCredentials == [username |-> <<>>, password |-> <<>>]

\* docker_credentials_from_auth_token: the credentials, or a panic
DockerCredentialsFromAuthToken(auth_token) ==
    LET decoded == Base64Decode(auth_token)
        parts == Splitn2(decoded.bytes, COLON)
    IN  IF decoded.err THEN [panic |-> TRUE, creds |-> NoCredentials]
        ELSE IF FromUtf8(decoded.bytes).err THEN [panic |-> TRUE, creds |-> NoCredentials]
        ELSE IF Len(parts) < 2 THEN [panic |-> TRUE, creds |-> NoCredentials]   \* parts[1]
        ELSE [panic |-> FALSE, creds |-> [username |-> parts[1], password |-> parts[2]]]

\* The response to GetAuthorizationToken: a transport error, no authorization
\* data, data without a token, or a token
TokenFooBar == <<"Z", "m", "9", "v", "O", "m", "J", "h", "c", "g", "=", "=">>
TokenFoo == <<"Z", "m", "9", "v">>
AuthResponses ==
    {[k |-> "err", token |-> <<>>], [k |-> "nodata", token |-> <<>>],
     [k |-> "notoken", token |-> <<>>],
     [k |-> "token", token |-> TokenFooBar], [k |-> "token", token |-> TokenFoo]}

\* The closure of ecr_auth_for_event on a successful response:
\* Option<DockerCredentials>, or a panic
AuthForEvent(resp) ==
    IF resp.k = "nodata" THEN [panic |-> FALSE, creds |-> None]
    ELSE IF resp.k = "notoken" THEN [panic |-> TRUE, creds |-> None]    \* take().unwrap()
    ELSE LET c == DockerCredentialsFromAuthToken(resp.token)
         IN  IF c.panic THEN [panic |-> TRUE, creds |-> None]
             ELSE [panic |-> FALSE, creds |-> Some(c.creds)]

----------------------------------------------------------------------------
(* The collaborators' data *)

Push(region, repo, digest) ==
    [json |-> "object", account |-> Str(<<"123456789012">>), region |-> Str(region),
     detail |-> "obj", action |-> Str(PUSH), result |-> Str(SUCCESS),
     repo |-> Str(repo), digest |-> Str(digest), tag |-> Str(<<"latest">>)]

\* Message.body of the messages on the queue
Bodies ==
    {None,                                                             \* empty message
     Some(NoPayload("invalid")),                                       \* not JSON
     Some([Push(<<"eu-west-1">>, <<"bittrance/ze-image">>, <<"sha256:1234">>)
              EXCEPT !.action = Str(<<"DELETE">>)]),                   \* not a push
     Some(Push(<<"eu-west-1">>, <<"bittrance/other">>, <<"sha256:1234">>)),
     Some(Push(<<"eu-west-1">>, <<"bittrance/ze-image">>, <<"sha256:1234">>)),
     Some(Push(<<"eu-west-1">>, <<"bittrance/ze-image">>, <<"sha256:abcd">>)),
     Some(Push(<<"rp-north-1">>, <<"bittrance/ze-image">>, <<"sha256:1234">>))}

ZeImage(region) ==
    <<"123456789012">> \o <<".dkr.ecr.">> \o region \o <<".amazonaws.com/">>
        \o <<"bittrance/ze-image">> \o <<":">> \o <<"latest">>

\* Services: one declaring the image with a digest, one naming it in the stack
\* label, one with neither, one running something else
SvcDeclared(id, region) ==
    Service(id, 1, NoLabels, TRUE, Some(ZeImage(region) \o <<AT, "sha512:5678">>))
SvcStack(id) ==
    Service(id, 1, [NoLabels EXCEPT ![STACK_IMAGE_LABEL] = Some(ZeImage(<<"eu-west-1">>)),
                                    !["some"] = Some(<<"label">>)], TRUE, None)
SvcBare(id) == Service(id, 1, NoLabels, TRUE, None)
\* A service named by the stack label whose task template has no container_spec
SvcNoContainer(id) ==
    Service(id, 1, [NoLabels EXCEPT ![STACK_IMAGE_LABEL] = Some(ZeImage(<<"eu-west-1">>))],
            FALSE, None)
SvcUnrelated(id) ==
    Service(id, 1, [NoLabels EXCEPT !["some"] = Some(<<"label">>)], TRUE,
            Some(<<"nginx", ":", "latest">>))

Swarms ==
    {<<SvcDeclared(1, <<"eu-west-1">>), SvcUnrelated(2)>>,
     <<SvcDeclared(1, <<"eu-west-1">>), SvcStack(2)>>,
     <<SvcStack(1), SvcBare(2)>>,
     <<SvcDeclared(1, <<"rp-north-1">>)>>,
     <<SvcNoContainer(1)>>}

\* Opt: --filter-label absent or some=label
Opts == {[filter_label |-> None], [filter_label |-> Some(<<"some", <<"label">>>>)]}

NoSpec == Service(0, 0, NoLabels, FALSE, None).spec
NoScope == [registry_ids |-> <<>>, region |-> <<>>]
Request(k, msg) ==
    [k |-> k, msg |-> msg, id |-> 0, version |-> 0, spec |-> NoSpec, creds |-> None,
     scope |-> NoScope]

\* The request of ecr_auth_for_event, mutated: the client is made for
\* Region::default(), as the SQS client is
AuthScopeDefaultRegion(event) ==
    [registry_ids |-> <<event.account_id>>, region |-> <<"us-east-1">>]

\* EcrClient::new(event_region) and GetAuthorizationTokenRequest.registry_ids
AuthScope(event) == [registry_ids |-> <<event.account_id>>, region |-> event.region]

Entry(op, msg, res) ==
    [op |-> op, msg |-> msg, res |-> res, svc |-> 0, token |-> 0, listed |-> 0,
     live |-> 0, image |-> None, key |-> <<>>]

NoCall == [fn |-> "none", arg |-> <<>>, done |-> FALSE, ret |-> <<>>]

\* Positions of the service with this id in a listing
Pos(svcs, id) == CHOOSE i \in 1..Len(svcs) : svcs[i].id = id
Listed(svcs, id) == \E i \in 1..Len(svcs) : svcs[i].id = id

Remove(q, id) == SelectSeq(q, LAMBDA m : m.id # id)

\* Subsequences of the queue, at most n long
Receivable(q, n) ==
    {[i \in 1..Len(f) |-> q[f[i]]] :
        f \in {g \in UNION {[1..k -> 1..Len(q)] : k \in 0..n} :
                  \A a, b \in DOMAIN g : a < b => g[a] < g[b]}}

----------------------------------------------------------------------------
(* main.rs: the loop of main() *)

Init ==
    /\ pc = "poll"
    /\ queue = <<>>
    /\ sent = 0
    /\ batch = <<>>
    /\ idx = 0
    /\ swarm \in Swarms
    /\ services = <<>>
    /\ services_by_image = EmptyIndex
    /\ listCount = 0
    /\ inflight = {}
    /\ log = <<>>
    /\ opt \in Opts
    /\ externals = 0
    /\ call = NoCall

\* The locals of process_one for the message the for loop is at
CurMessage == batch[idx]
CurEvent == Unwrap(ParseEcrEvent(Unwrap(CurMessage.body)).val)

\* `services_by_image.get(&image)`, mutated: the service is read from the
\* swarm as it is when the message is processed
CurServiceLive ==
    swarm[Pos(swarm, Unwrap(Lookup(services_by_image, Image(CurEvent))).id)]

CurService == Unwrap(Lookup(services_by_image, Image(CurEvent)))

\* `process_one(..).await?; sqs::delete_message(..)`, mutated: the error is dropped
AfterProcessOneLenient(ok, i, b) == [pc |-> "ack", idx |-> i]

\* `process_one(..).await?; sqs::delete_message(..)`, mutated: no delete
AfterProcessOneNoAck(ok, i, b) ==
    IF ~ok THEN [pc |-> "failed", idx |-> i]
    ELSE IF i < Len(b) THEN [pc |-> "process", idx |-> i + 1]
    ELSE [pc |-> "poll", idx |-> i]

\* `process_one(..).await?; sqs::delete_message(..)`: where main() goes when
\* process_one returns
AfterProcessOne(ok, i, b) ==
    IF ok THEN [pc |-> "ack", idx |-> i] ELSE [pc |-> "failed", idx |-> i]

\* `sqs::delete_message(..).await?` and the loops, mutated: a listing per message
AfterAckRelist(ok, i, b) ==
    IF ~ok THEN [pc |-> "failed", idx |-> i]
    ELSE IF i < Len(b) THEN [pc |-> "list", idx |-> i + 1]
    ELSE [pc |-> "poll", idx |-> i]

\* `sqs::delete_message(..).await?`, mutated: the error is dropped
AfterAckLenient(ok, i, b) ==
    IF i < Len(b) THEN [pc |-> "process", idx |-> i + 1] ELSE [pc |-> "poll", idx |-> i]

\* `sqs::delete_message(..).await?`, the end of the for body and of the loop body
AfterAck(ok, i, b) ==
    IF ~ok THEN [pc |-> "failed", idx |-> i]
    ELSE IF i < Len(b) THEN [pc |-> "process", idx |-> i + 1]
    ELSE [pc |-> "poll", idx |-> i]

\* main() moves on, mutated: the answered request is not taken out of flight
GotoKeepsInflight(step, m) ==
    /\ pc' = step.pc
    /\ idx' = step.idx
    /\ inflight' = inflight \cup (IF step.pc = "ack" THEN {Request("delete", m.id)} ELSE {})

\* main() moves on; entering delete_message puts its request in flight
Goto(step, m) ==
    /\ pc' = step.pc
    /\ idx' = step.idx
    /\ inflight' = IF step.pc = "ack" THEN {Request("delete", m.id)} ELSE {}

\* sqs::poll_messages returns messages
PollMessages ==
    /\ pc = "poll"
    /\ \E b \in Receivable(queue, MaxBatch) : batch' = b
    /\ pc' = "list"
    /\ idx' = 0
    /\ services' = <<>>
    /\ services_by_image' = EmptyIndex
    /\ listCount' = 0
    /\ UNCHANGED <<queue, sent, swarm, inflight, log, opt, externals, call>>

\* sqs::poll_messages returns an error (SqsUrl, PollingMessage)
PollFails ==
    /\ pc = "poll"
    /\ pc' = "failed"
    /\ UNCHANGED <<queue, sent, batch, idx, swarm, services, services_by_image,
                   listCount, inflight, log, opt, externals, call>>

\* candidate_services returns the services, build_service_index indexes them
ListServices ==
    /\ pc = "list"
    /\ services' = swarm
    /\ listCount' = listCount + 1
    /\ LET index == BuildServiceIndex(swarm, opt)
       IN  IF index.panic
           THEN /\ pc' = "panicked"
                /\ log' = Append(log, Entry("panic", 0, "build_service_index"))
                /\ UNCHANGED <<services_by_image, idx>>
           ELSE /\ services_by_image' = index.map
                /\ pc' = IF batch = <<>> THEN "poll" ELSE "process"
                /\ idx' = IF batch = <<>> THEN 0 ELSE 1
                /\ log' = log
    /\ UNCHANGED <<queue, sent, batch, swarm, inflight, opt, externals, call>>

\* candidate_services returns an error (ServiceListing)
ListFails ==
    /\ pc = "list"
    /\ pc' = "failed"
    /\ UNCHANGED <<queue, sent, batch, idx, swarm, services, services_by_image,
                   listCount, inflight, log, opt, externals, call>>

\* process_one up to its first await, or up to its return when it awaits nothing
ProcessOne ==
    /\ pc = "process"
    /\ LET m == CurMessage
           parsed == ParseEcrEvent(Unwrap(m.body))
           event == Unwrap(parsed.val)
           found == Lookup(services_by_image, Image(event))
           service == Unwrap(found)
           skip(res) ==
               /\ log' = log \o <<Entry("begin", m.id, res), Entry("done", m.id, "ok")>>
               /\ Goto(AfterProcessOne(TRUE, idx, batch), m)
       IN  IF m.body = None THEN skip("empty")
           ELSE IF parsed.panic
           THEN /\ log' = log \o <<Entry("begin", m.id, "panic"),
                                   Entry("panic", m.id, "parse_ecr_event")>>
                /\ pc' = "panicked"
                /\ UNCHANGED <<idx, inflight>>
           ELSE IF parsed.val = None THEN skip("none")
           ELSE IF found = None THEN skip("nomatch")
           ELSE IF RegionFromStr(event.region).panic
           THEN /\ log' = log \o <<[Entry("begin", m.id, "match") EXCEPT
                                       !.key = Image(event), !.svc = service.id],
                                   Entry("panic", m.id, "Region::from_str")>>
                /\ pc' = "panicked"
                /\ UNCHANGED <<idx, inflight>>
           ELSE /\ log' = log \o <<[Entry("begin", m.id, "match") EXCEPT
                                       !.key = Image(event), !.svc = service.id],
                                   [Entry("auth", m.id, "sent") EXCEPT
                                       !.key = event.account_id \o event.region]>>
                /\ pc' = "auth"
                /\ inflight' = {[Request("auth", m.id) EXCEPT !.scope = AuthScope(event)]}
                /\ idx' = idx
    /\ UNCHANGED <<queue, sent, batch, swarm, services, services_by_image,
                   listCount, opt, externals, call>>

\* get_authorization_token returns: ecr_auth_for_event, update_spec and the
\* call of update_service
AuthResponse ==
    /\ pc = "auth"
    /\ \E resp \in AuthResponses :
         LET m == CurMessage
             auth == AuthForEvent(resp)
             updated_spec == UpdateSpec(CurService, CurEvent)
         IN  IF resp.k = "err"
             THEN /\ log' = Append(log, Entry("auth_resp", m.id, "err"))
                  /\ Goto(AfterProcessOne(FALSE, idx, batch), m)
             ELSE IF auth.panic
             THEN /\ log' = log \o <<Entry("auth_resp", m.id, "ok"),
                                     Entry("panic", m.id, "ecr_auth_for_event")>>
                  /\ pc' = "panicked"
                  /\ inflight' = {}
                  /\ idx' = idx
             ELSE /\ log' = log \o <<Entry("auth_resp", m.id, "ok"),
                                     [Entry("update", m.id, "sent") EXCEPT
                                         !.svc = CurService.id,
                                         !.token = VersionToken(CurService),
                                         !.listed = services[Pos(services, CurService.id)].version,
                                         !.image = updated_spec.image,
                                         !.key = Image(CurEvent)]>>
                  /\ pc' = "update"
                  /\ inflight' = {[Request("update", m.id) EXCEPT
                                      !.id = CurService.id,
                                      !.version = VersionToken(CurService),
                                      !.spec = updated_spec,
                                      !.creds = auth.creds]}
                  /\ idx' = idx
    /\ UNCHANGED <<queue, sent, batch, swarm, services, services_by_image,
                   listCount, opt, externals, call>>

\* The swarm accepts the update: the version token is the live version
UpdateApplied ==
    /\ pc = "update"
    /\ \E r \in inflight :
         LET p == Pos(swarm, r.id)
         IN  /\ r.k = "update"
             /\ r.version = swarm[p].version
             /\ swarm' = [swarm EXCEPT ![p] = [@ EXCEPT !.version = @ + 1, !.spec = r.spec]]
             /\ log' = log \o <<[Entry("update_resp", r.msg, "applied") EXCEPT
                                    !.svc = r.id, !.token = r.version,
                                    !.live = swarm[p].version],
                                Entry("done", r.msg, "ok")>>
             /\ Goto(AfterProcessOne(TRUE, idx, batch), CurMessage)
    /\ UNCHANGED <<queue, sent, batch, services, services_by_image, listCount,
                   opt, externals, call>>

\* The swarm rejects the update: the version token is stale
UpdateRejected ==
    /\ pc = "update"
    /\ \E r \in inflight :
         LET p == Pos(swarm, r.id)
         IN  /\ r.k = "update"
             /\ r.version # swarm[p].version
             /\ log' = Append(log, [Entry("update_resp", r.msg, "stale") EXCEPT
                                       !.svc = r.id, !.token = r.version,
                                       !.live = swarm[p].version])
             /\ Goto(AfterProcessOne(FALSE, idx, batch), CurMessage)
    /\ UNCHANGED <<queue, sent, batch, swarm, services, services_by_image,
                   listCount, opt, externals, call>>

\* update_service fails before the swarm acts on it
UpdateFails ==
    /\ pc = "update"
    /\ \E r \in inflight :
         /\ r.k = "update"
         /\ log' = Append(log, [Entry("update_resp", r.msg, "err") EXCEPT
                                   !.svc = r.id, !.token = r.version])
         /\ Goto(AfterProcessOne(FALSE, idx, batch), CurMessage)
    /\ UNCHANGED <<queue, sent, batch, swarm, services, services_by_image,
                   listCount, opt, externals, call>>

\* sqs::delete_message succeeds
AckMessage ==
    /\ pc = "ack"
    /\ queue' = Remove(queue, CurMessage.id)
    /\ log' = Append(log, Entry("delete", CurMessage.id, "ok"))
    /\ Goto(AfterAck(TRUE, idx, batch), CurMessage)
    /\ UNCHANGED <<sent, batch, swarm, services, services_by_image, listCount,
                   opt, externals, call>>

\* sqs::delete_message returns an error (SqsUrl, AckingMessage)
AckFails ==
    /\ pc = "ack"
    /\ log' = Append(log, Entry("delete", CurMessage.id, "err"))
    /\ Goto(AfterAck(FALSE, idx, batch), CurMessage)
    /\ UNCHANGED <<queue, sent, batch, swarm, services, services_by_image,
                   listCount, opt, externals, call>>

\* The registry's event rule puts a notification on the queue; the queue is
\* read by poll_messages only, so arrivals are taken at the poll
Send ==
    /\ pc = "poll"
    /\ sent < MaxMsgs
    /\ \E b \in Bodies : queue' = Append(queue, [id |-> sent + 1, body |-> b])
    /\ sent' = sent + 1
    /\ UNCHANGED <<pc, batch, idx, swarm, services, services_by_image, listCount,
                   inflight, log, opt, externals, call>>

\* Another client of the swarm updates a service, after the listing and before
\* the swarm answers an update call
ExternalUpdate ==
    /\ pc = "update"
    /\ externals < MaxExternal
    /\ \E p \in 1..Len(swarm) :
         swarm' = [swarm EXCEPT ![p] = [@ EXCEPT !.version = @ + 1]]
    /\ externals' = externals + 1
    /\ UNCHANGED <<pc, queue, sent, batch, idx, services, services_by_image,
                   listCount, inflight, log, opt, call>>

Next ==
    \/ PollMessages
    \/ PollFails
    \/ ListServices
    \/ ListFails
    \/ ProcessOne
    \/ AuthResponse
    \/ UpdateApplied
    \/ UpdateRejected
    \/ UpdateFails
    \/ AckMessage
    \/ AckFails
    \/ Send
    \/ ExternalUpdate

Spec == Init /\ [][Next]_vars

\* The steps of main() itself: the runtime keeps polling the one task, so a
\* step of the loop that can be taken is taken; arrivals on the queue and the
\* other clients of the swarm are under no such obligation
LoopStep ==
    \/ PollMessages
    \/ PollFails
    \/ ListServices
    \/ ListFails
    \/ ProcessOne
    \/ AuthResponse
    \/ UpdateApplied
    \/ UpdateRejected
    \/ UpdateFails
    \/ AckMessage
    \/ AckFails

SpecLive == Init /\ [][Next]_vars /\ WF_vars(LoopStep)

----------------------------------------------------------------------------
(* parse_ecr_event and Event::image applied to every payload *)

ParseCall(p) ==
    [fn |-> "parse_ecr_event", arg |-> p, done |-> FALSE, ret |-> ParseNone, image |-> None]

InitParse ==
    /\ pc = "poll"
    /\ queue = <<>>
    /\ sent = 0
    /\ batch = <<>>
    /\ idx = 0
    /\ swarm = <<SvcDeclared(1, <<"eu-west-1">>)>>
    /\ services = <<>>
    /\ services_by_image = EmptyIndex
    /\ listCount = 0
    /\ inflight = {}
    /\ log = <<>>
    /\ opt = [filter_label |-> None]
    /\ externals = 0
    /\ call \in {ParseCall(p) : p \in Payloads}

ApplyParse ==
    /\ call.fn = "parse_ecr_event"
    /\ ~call.done
    /\ call' = [call EXCEPT !.done = TRUE, !.ret = ParseEcrEvent(call.arg)]
    /\ UNCHANGED <<pc, queue, sent, batch, idx, swarm, services, services_by_image,
                   listCount, inflight, log, opt, externals>>

ApplyImage ==
    /\ call.fn = "parse_ecr_event"
    /\ call.done
    /\ IsSome(call.ret.val)
    /\ call.image = None
    /\ call' = [call EXCEPT !.image = Some(Image(Unwrap(call.ret.val)))]
    /\ UNCHANGED <<pc, queue, sent, batch, idx, swarm, services, services_by_image,
                   listCount, inflight, log, opt, externals>>

NextParse ==
    \/ ApplyParse
    \/ ApplyImage

SpecParse == InitParse /\ [][NextParse]_vars

----------------------------------------------------------------------------
(* Properties of the loop *)

Ids(q) == {q[i].id : i \in 1..Len(q)}
Entries(op, m) == {k \in 1..Len(log) : log[k].op = op /\ log[k].msg = m}
Processing == {"process", "auth", "update", "ack"}
MsgIds == 1..MaxMsgs

\* The canonical reference and the pinned image a payload stands for
ReferenceOf(p) ==
    p.account.s \o <<".dkr.ecr.">> \o p.region.s \o <<".amazonaws.com/">>
        \o p.repo.s \o <<":">> \o p.tag.s
PinnedOf(p) == ReferenceOf(p) \o <<"@">> \o p.digest.s

\* A payload that is a successful push with its five strings
IsTrigger(p) ==
    /\ p.json = "object" /\ p.detail = "obj"
    /\ p.action = Str(<<"PUSH">>) /\ p.result = Str(<<"SUCCESS">>)
    /\ \A v \in {p.account, p.region, p.repo, p.digest, p.tag} : v.k = "str"

\* A payload that is a notification of something else than a successful push
IsNonTrigger(p) ==
    /\ p.json = "object" /\ p.detail = "obj"
    /\ (p.action # Str(<<"PUSH">>) \/ p.result # Str(<<"SUCCESS">>))

\* The services of a listing that pass the filter and resolve to a reference
Resolving(svcs, ref) ==
    {i \in 1..Len(svcs) :
        /\ PassesFilter(svcs[i], opt.filter_label)
        /\ \/ svcs[i].spec.labels[STACK_IMAGE_LABEL] = Some(ref)
           \/ /\ svcs[i].spec.labels[STACK_IMAGE_LABEL] = None
              /\ svcs[i].spec.has_container
              /\ IsSome(svcs[i].spec.image)
              /\ \E n \in 0..Len(Unwrap(svcs[i].spec.image)) :
                    /\ SubSeq(Unwrap(svcs[i].spec.image), 1, n) = ref
                    /\ (n < Len(Unwrap(svcs[i].spec.image))
                           => Unwrap(svcs[i].spec.image)[n + 1] = "@")
                    /\ \A j \in 1..n : Unwrap(svcs[i].spec.image)[j] # "@"}

\* C1: a message is deleted only after process_one returned Ok for it, which it
\* does only after an applied update or for a message that triggers nothing;
\* a message whose credential request or update failed is never deleted and
\* stays on the queue.
C1_AckOnlyAfterSuccess ==
    /\ \A k \in 1..Len(log) :
          log[k].op = "delete" =>
              \E j \in 1..(k - 1) : log[j].op = "done" /\ log[j].msg = log[k].msg
    /\ \A r \in inflight :
          r.k = "delete" => Entries("done", r.msg) # {}
    /\ \A k \in 1..Len(log) :
          log[k].op = "done" =>
              \E j \in 1..(k - 1) :
                  /\ log[j].msg = log[k].msg
                  /\ \/ log[j].op = "update_resp" /\ log[j].res = "applied"
                     \/ log[j].op = "begin" /\ log[j].res \in {"empty", "none", "nomatch"}
    /\ \A k \in 1..Len(log) :
          (log[k].op \in {"auth_resp", "update_resp"} /\ log[k].res \in {"err", "stale"}) =>
              /\ Entries("delete", log[k].msg) = {}
              /\ Entries("done", log[k].msg) = {}
              /\ log[k].msg \in Ids(queue)
              /\ \A r \in inflight : ~(r.k = "delete" /\ r.msg = log[k].msg)

\* C1 witness: one message was deleted after its update was applied, and the
\* update of another failed, which is still on the queue
C1_Witness ==
    \E a, b \in MsgIds :
        /\ \E k \in Entries("update_resp", a) : log[k].res = "applied"
        /\ \E k \in Entries("delete", a) : log[k].res = "ok"
        /\ a \notin Ids(queue)
        /\ \E k \in Entries("update_resp", b) : log[k].res \in {"err", "stale"}
        /\ b \in Ids(queue)

\* C2: every update call carries the version the service had in the listing of
\* this iteration, and an update is applied only when that token is the live
\* version: no update is applied to a service whose version advanced since
\* the listing.
C2_TokenIsListedVersion ==
    /\ \A k \in 1..Len(log) : log[k].op = "update" => log[k].token = log[k].listed
    /\ \A r \in inflight :
          r.k = "update" =>
              /\ Listed(services, r.id)
              /\ r.version = services[Pos(services, r.id)].version
    /\ \A k \in 1..Len(log) :
          (log[k].op = "update_resp" /\ log[k].res = "applied") =>
              /\ log[k].live = log[k].token
              /\ \E j \in 1..(k - 1) :
                    /\ log[j].op = "update" /\ log[j].msg = log[k].msg
                    /\ log[j].svc = log[k].svc
                    /\ log[j].listed = log[k].live
    /\ \A k \in 1..Len(log) :
          (log[k].op = "update_resp" /\ log[k].res # "err"
              /\ \E j \in 1..(k - 1) : log[j].op = "update" /\ log[j].msg = log[k].msg
                                          /\ log[j].listed < log[k].live)
          => log[k].res = "stale"

\* C2 witness: an update was rejected because the live version had advanced
\* since the listing
C2_Witness ==
    \E k \in 1..Len(log) :
        /\ log[k].op = "update_resp" /\ log[k].res = "stale"
        /\ log[k].live > log[k].token

\* Messages whose processing matched a service, and is over
MatchedOver ==
    {m \in MsgIds :
        /\ \E k \in Entries("begin", m) : log[k].res = "match"
        /\ ~(pc \in {"auth", "update"} /\ CurMessage.id = m)}

C3_Calls ==
    /\ \A m \in MsgIds :
          /\ Cardinality(Entries("update", m)) <= 1
          /\ (Entries("done", m) # {} /\ \E k \in Entries("begin", m) : log[k].res = "match")
                => Cardinality(Entries("update", m)) = 1
          /\ Entries("update", m) # {} => \E k \in Entries("begin", m) : log[k].res = "match"
    /\ Cardinality({k \in 1..Len(log) : log[k].op = "update"})
          <= Cardinality({k \in 1..Len(log) : log[k].op = "begin" /\ log[k].res = "match"})
    /\ \A r \in inflight :
          r.k = "update" =>
              /\ CurMessage.id = r.msg
              /\ IsTrigger(Unwrap(CurMessage.body))
              /\ Listed(services, r.id)
              /\ Pos(services, r.id) \in Resolving(services, ReferenceOf(Unwrap(CurMessage.body)))
              /\ (r.spec.has_container
                     => r.spec.image = Some(PinnedOf(Unwrap(CurMessage.body))))
              /\ \E k \in Entries("update", r.msg) :
                    log[k].svc = r.id /\ log[k].image = r.spec.image

CurTriggersNothing ==
    /\ CurMessage.body # None
    /\ \/ IsNonTrigger(Unwrap(CurMessage.body))
       \/ /\ IsTrigger(Unwrap(CurMessage.body))
          /\ Resolving(services, ReferenceOf(Unwrap(CurMessage.body))) = {}

C4_NoCalls ==
    \A k \in 1..Len(log) :
        (log[k].op = "begin" /\ log[k].res \in {"none", "nomatch"}) =>
            /\ Entries("auth", log[k].msg) = {}
            /\ Entries("update", log[k].msg) = {}
            /\ Entries("panic", log[k].msg) = {}
            /\ Entries("done", log[k].msg) = {k + 1}

\* C4: a message whose event decodes to None or matches no catalog entry makes
\* process_one return Ok without a credential request or an update call, and
\* main() goes on to delete it; the next message is processed only once the
\* message is off the queue.
C4_SkipAndAck ==
    /\ []C4_NoCalls
    /\ [][ (pc = "process" /\ pc' # "process" /\ CurTriggersNothing) =>
              /\ pc' = "ack"
              /\ idx' = idx
              /\ inflight' = {Request("delete", CurMessage.id)}
              /\ swarm' = swarm
              /\ \A k \in (Len(log) + 1)..Len(log') :
                    log'[k].msg = CurMessage.id /\ log'[k].op \in {"begin", "done"} ]_vars
    /\ [][ (pc = "ack" /\ pc' \in {"process", "poll"}) =>
              /\ CurMessage.id \notin Ids(queue')
              /\ pc' = "process" => idx' = idx + 1 ]_vars

\* C4 witness: the first message of a batch matched nothing and is off the
\* queue, the loop is at the second
C4_Witness ==
    /\ pc = "process"
    /\ idx = 2
    /\ \E k \in Entries("begin", batch[1].id) : log[k].res \in {"none", "nomatch"}
    /\ batch[1].id \notin Ids(queue)

C5_OneListing ==
    /\ pc = "list" =>
          /\ listCount = 0
          /\ services_by_image = EmptyIndex
          /\ \A i \in 1..Len(batch) : \A k \in 1..Len(log) : log[k].msg # batch[i].id
    /\ pc \in Processing =>
          /\ listCount = 1
          /\ ~BuildServiceIndex(services, opt).panic
          /\ services_by_image = BuildServiceIndex(services, opt).map
          /\ \A ref \in DOMAIN services_by_image :
                \E i \in Resolving(services, ref) : services_by_image[ref] = services[i]

\* C5: in an iteration the services are listed once, after the poll and before
\* any message of the batch is processed; the catalog the messages are matched
\* against is the index of that listing, which the listing step takes from the
\* swarm as it is then.
C5_ListedOncePerBatch ==
    /\ []C5_OneListing
    /\ [][ (pc = "list" /\ pc' \in Processing) =>
              /\ services' = swarm
              /\ services_by_image' = BuildServiceIndex(swarm, opt).map ]_vars
    /\ [][ (pc \in Processing) =>
              (services' = services /\ services_by_image' = services_by_image
                  /\ listCount' = listCount) ]_vars

\* C5 witness: the loop is at the second message of a batch, one listing was
\* made, and the swarm has moved on since
C5_Witness ==
    /\ pc = "process"
    /\ idx = 2
    /\ listCount = 1
    /\ services # swarm

\* C6: at most one request is in flight, and while the loop is at message i of
\* the batch every earlier message is deleted and no later one has been touched.
C6_Sequential ==
    /\ Cardinality(inflight) <= 1
    /\ \A r \in inflight : pc \in Processing /\ r.msg = CurMessage.id
    /\ pc \in Processing =>
          /\ idx \in 1..Len(batch)
          /\ \A i \in 1..(idx - 1) :
                /\ batch[i].id \notin Ids(queue)
                /\ \E k \in Entries("delete", batch[i].id) : log[k].res = "ok"
          /\ \A i \in (idx + 1)..Len(batch) :
                \A k \in 1..Len(log) : log[k].msg # batch[i].id
    /\ \A j, k \in 1..Len(log) :
          (j < k /\ log[j].msg # log[k].msg /\ log[j].msg # 0 /\ log[k].msg # 0) =>
              \E d \in Entries("delete", log[j].msg) : d < k /\ log[d].res = "ok"

\* C6 witness: the update of the second message of a batch is in flight, after
\* the first was updated and deleted
C6_Witness ==
    /\ pc = "update"
    /\ idx = 2
    /\ Entries("update", batch[1].id) # {}
    /\ \E r \in inflight : r.k = "update" /\ r.msg = batch[2].id

\* C7 as stated: build_service_index completes without an error for every
\* listing, and indexes every service that has a reference.
C7_BuildNeverFails ==
    /\ \A k \in 1..Len(log) : ~(log[k].op = "panic" /\ log[k].res = "build_service_index")
    /\ pc \in Processing =>
          \A i \in 1..Len(services) :
              (PassesFilter(services[i], opt.filter_label)
                  /\ ExtractServiceImage(services[i]) # None)
              => Unwrap(ExtractServiceImage(services[i])) \in DOMAIN services_by_image

----------------------------------------------------------------------------
(* Properties of parse_ecr_event *)

Parsed == call.fn = "parse_ecr_event" /\ call.done

AnyAbsent(p) ==
    \E v \in {p.account, p.region, p.repo, p.digest, p.tag} : v.k = "absent"

\* C8 as stated: a payload that is not an object, or lacks one of account,
\* region, detail, action-type, result, repository-name, image-digest,
\* image-tag, is a decode error and never None.
C8_Original ==
    Parsed =>
        ((\/ call.arg.json # "object"
          \/ call.arg.detail = "absent"
          \/ call.arg.action.k = "absent"
          \/ call.arg.result.k = "absent"
          \/ AnyAbsent(call.arg))
         => call.ret.panic)

\* C8 amended: parse_ecr_event panics, and does not return None, when the
\* payload is not an object, when detail is absent, and when action-type is
\* "PUSH", result is "SUCCESS" and one of account, region, repository-name,
\* image-digest, image-tag is absent; with detail an object and action-type
\* absent, or action-type "PUSH" and result absent, it returns None.
C8_DecodeErrors ==
    Parsed =>
        /\ (\/ call.arg.json # "object"
            \/ call.arg.detail = "absent"
            \/ /\ call.arg.detail = "obj"
               /\ call.arg.action = Str(<<"PUSH">>)
               /\ call.arg.result = Str(<<"SUCCESS">>)
               /\ AnyAbsent(call.arg))
           => call.ret = ParsePanic
        /\ (/\ call.arg.json = "object"
            /\ call.arg.detail = "obj"
            /\ \/ call.arg.action.k = "absent"
               \/ call.arg.action = Str(<<"PUSH">>) /\ call.arg.result.k = "absent")
           => call.ret = ParseNone

\* C8 witness: a successful push without its account was decoded, to a panic
C8_Witness ==
    /\ Parsed
    /\ call.arg.action = Str(<<"PUSH">>)
    /\ call.arg.result = Str(<<"SUCCESS">>)
    /\ call.arg.account.k = "absent"
    /\ call.arg.tag.k = "str"
    /\ call.ret.panic

\* C9: a notification with a detail object whose action-type is not "PUSH" or
\* whose result is not "SUCCESS" decodes to None, whatever its other members.
C9_NonTriggerIsNone == (Parsed /\ IsNonTrigger(call.arg)) => call.ret = ParseNone

\* C9 witness: a failed push without account and digest was decoded, to None
C9_Witness ==
    /\ Parsed
    /\ call.arg.action = Str(<<"PUSH">>)
    /\ call.arg.result = Str(<<"FAILURE">>)
    /\ call.arg.account.k = "absent"
    /\ call.arg.digest.k = "other"
    /\ call.ret = ParseNone

\* C10: a successful push with its five strings decodes to an event with
\* these five values, and image() is
\* {account}.dkr.ecr.{region}.amazonaws.com/{repo}:{tag}.
C10_EventFields ==
    (Parsed /\ IsTrigger(call.arg)) =>
        /\ call.ret = ParseSome([account_id |-> call.arg.account.s,
                                 region |-> call.arg.region.s,
                                 repository_name |-> call.arg.repo.s,
                                 image_digest |-> call.arg.digest.s,
                                 image_tag |-> call.arg.tag.s])
        /\ call.image # None => call.image = Some(ReferenceOf(call.arg))

\* C10 witness: the test's notification was decoded and image() applied
C10_Witness ==
    /\ Parsed
    /\ call.arg.region = Str(<<"rp-north-1">>)
    /\ call.arg.digest = Str(<<"sha256:1234">>)
    /\ IsSome(call.ret.val)
    /\ call.image = Some(<<"123456789012", ".dkr.ecr.", "rp-north-1", ".amazonaws.com/",
                           "bittrance/ze-image", ":", "latest">>)


----------------------------------------------------------------------------
(* extract_service_image and build_service_index applied to services *)

MaxListing == 2

RefA == <<"bittrance/ze-image", ":", "latest">>
RefB == <<"bittrance/other", ":", "latest">>

\* Values of the stack-image label, of the label some, and of the declared image
StackLabels == {None, Some(RefA), Some(RefA \o <<"@", "sha512:1234">>)}
SomeLabels == {None, Some(<<"label">>), Some(<<"other">>)}
DeclaredImages ==
    {None, Some(RefA), Some(RefB), Some(RefA \o <<"@", "sha512:12341243">>),
     Some(RefA \o <<"@", "sha512:1234", "@", "sha512:5678">>), Some(<<"@", "sha512:1234">>)}

\* Services as service_spec() of the tests builds them, and without container_spec
TestServices ==
    {Service(0, 1, [NoLabels EXCEPT ![STACK_IMAGE_LABEL] = l, !["some"] = f], TRUE, i) :
        l \in StackLabels, f \in SomeLabels, i \in DeclaredImages}
    \cup {Service(0, 1, [NoLabels EXCEPT ![STACK_IMAGE_LABEL] = l, !["some"] = f], FALSE, None) :
        l \in StackLabels, f \in SomeLabels}

\* The services a listing is made of
ListingServices ==
    {s \in TestServices :
        /\ s.spec.has_container
        /\ s.spec.image \in {None, Some(RefB), Some(RefA \o <<"@", "sha512:12341243">>)}}

Listings ==
    UNION {{[i \in 1..n |-> [l[i] EXCEPT !.id = i]] : l \in [1..n -> ListingServices]} :
              n \in 0..MaxListing}

ExtractCall(s) == [fn |-> "extract_service_image", arg |-> s, done |-> FALSE, ret |-> None]
BuildCall(l) ==
    [fn |-> "build_service_index", arg |-> l, done |-> FALSE,
     ret |-> [panic |-> FALSE, map |-> EmptyIndex]]

InitCatalog ==
    /\ pc = "poll"
    /\ queue = <<>>
    /\ sent = 0
    /\ batch = <<>>
    /\ idx = 0
    /\ swarm = <<>>
    /\ services = <<>>
    /\ services_by_image = EmptyIndex
    /\ listCount = 0
    /\ inflight = {}
    /\ log = <<>>
    /\ opt \in Opts
    /\ externals = 0
    /\ call \in {ExtractCall(s) : s \in TestServices} \cup {BuildCall(l) : l \in Listings}

ApplyExtract ==
    /\ call.fn = "extract_service_image"
    /\ ~call.done
    /\ call' = [call EXCEPT !.done = TRUE, !.ret = ExtractServiceImage(call.arg)]
    /\ UNCHANGED <<pc, queue, sent, batch, idx, swarm, services, services_by_image,
                   listCount, inflight, log, opt, externals>>

ApplyBuild ==
    /\ call.fn = "build_service_index"
    /\ ~call.done
    /\ call' = [call EXCEPT !.done = TRUE, !.ret = BuildServiceIndex(call.arg, opt)]
    /\ UNCHANGED <<pc, queue, sent, batch, idx, swarm, services, services_by_image,
                   listCount, inflight, log, opt, externals>>

NextCatalog ==
    \/ ApplyExtract
    \/ ApplyBuild

SpecCatalog == InitCatalog /\ [][NextCatalog]_vars

Extracted == call.fn = "extract_service_image" /\ call.done
Built == call.fn = "build_service_index" /\ call.done

\* s up to, and without, its first '@'
UpToAt(s, r) ==
    /\ Len(r) <= Len(s)
    /\ r = SubSeq(s, 1, Len(r))
    /\ \A j \in 1..Len(r) : r[j] # "@"
    /\ Len(r) < Len(s) => s[Len(r) + 1] = "@"

\* C11: with the stack-image label present extract_service_image returns its
\* value as it is, digest suffix and declared image notwithstanding; without
\* the label and with a declared image it returns the image up to its first '@'.
C11_LabelThenImage ==
    Extracted =>
        /\ call.arg.spec.labels[STACK_IMAGE_LABEL] # None
              => call.ret = call.arg.spec.labels[STACK_IMAGE_LABEL]
        /\ (call.arg.spec.labels[STACK_IMAGE_LABEL] = None
               /\ call.arg.spec.has_container /\ call.arg.spec.image # None)
              => /\ call.ret # None
                 /\ UpToAt(Unwrap(call.arg.spec.image), Unwrap(call.ret))

\* C11 witness: the label carried a digest and an image was declared too; and
\* the declared image of another service would be cut at the first of two '@'
C11_Witness ==
    /\ Extracted
    /\ \/ /\ call.arg.spec.labels[STACK_IMAGE_LABEL] = Some(RefA \o <<"@", "sha512:1234">>)
          /\ call.arg.spec.image = Some(RefB)
          /\ call.ret = Some(RefA \o <<"@", "sha512:1234">>)
       \/ /\ call.arg.spec.labels[STACK_IMAGE_LABEL] = None
          /\ call.arg.spec.image = Some(RefA \o <<"@", "sha512:1234", "@", "sha512:5678">>)
          /\ call.ret = Some(RefA)


\* A service has a reference: the stack-image label or a declared image
HasReference(s) ==
    \/ s.spec.labels[STACK_IMAGE_LABEL] # None
    \/ s.spec.has_container /\ s.spec.image # None

\* A service has the label of the filter, when there is one
HasFilterLabel(s) ==
    \/ opt.filter_label = None
    \/ s.spec.labels[Unwrap(opt.filter_label)[1]] = Some(Unwrap(opt.filter_label)[2])

\* The references the services of a listing have
ReferencesOf(svcs) ==
    {r \in {RefA, RefB, RefA \o <<"@", "sha512:1234">>} : Resolving(svcs, r) # {}}

Max(S) == CHOOSE m \in S : \A x \in S : x <= m

\* C12 as stated: for every listing, the services of the index are those that
\* have the filter's label (all of them without a filter) and a reference; one
\* of these is the entry of its reference, unless a later one has the same.
C12_FilteredIndex ==
    Built =>
        /\ ~call.ret.panic
        /\ \A ref \in DOMAIN call.ret.map :
              \E i \in 1..Len(call.arg) :
                  /\ call.ret.map[ref] = call.arg[i]
                  /\ HasFilterLabel(call.arg[i])
                  /\ HasReference(call.arg[i])
        /\ \A i \in 1..Len(call.arg) :
              (HasFilterLabel(call.arg[i]) /\ HasReference(call.arg[i])) =>
                  \E ref \in DOMAIN call.ret.map :
                      /\ i \in Resolving(call.arg, ref)
                      /\ \E j \in i..Len(call.arg) :
                            j \in Resolving(call.arg, ref) /\ call.ret.map[ref] = call.arg[j]

\* C17: the index has one service per reference, and it is the last of the
\* listing among those that pass the filter and resolve to the reference.
C17_LastWins ==
    (Built /\ ~call.ret.panic) =>
        /\ DOMAIN call.ret.map = ReferencesOf(call.arg)
        /\ \A ref \in DOMAIN call.ret.map :
              call.ret.map[ref] = call.arg[Max(Resolving(call.arg, ref))]

\* C17 witness: two services of a listing resolve to one reference, by the
\* label and by the declared image, and the index has the second
C17_Witness ==
    /\ Built
    /\ ~call.ret.panic
    /\ Len(call.arg) = 2
    /\ call.arg[1].spec.labels[STACK_IMAGE_LABEL] = Some(RefA)
    /\ call.arg[2].spec.labels[STACK_IMAGE_LABEL] = None
    /\ call.arg[2].spec.image = Some(RefA \o <<"@", "sha512:12341243">>)
    /\ Resolving(call.arg, RefA) = {1, 2}
    /\ DOMAIN call.ret.map = {RefA}
    /\ call.ret.map[RefA].id = 2


----------------------------------------------------------------------------
(* update_spec and the version token applied to matched services and events *)

PlanEvents ==
    [account_id : Accounts, region : Regions,
     repository_name : {<<"bittrance/ze-image">>, <<"bittrance/other">>},
     image_digest : Digests, image_tag : {<<"latest">>}]

PlanServices == {[s EXCEPT !.version = v] : s \in TestServices, v \in {1, 2}}

PlanCall(s, e) ==
    [fn |-> "update_spec", arg |-> [service |-> s, event |-> e], done |-> FALSE,
     ret |-> [spec |-> NoSpec, version |-> 0]]

InitPlan ==
    /\ pc = "poll"
    /\ queue = <<>>
    /\ sent = 0
    /\ batch = <<>>
    /\ idx = 0
    /\ swarm = <<>>
    /\ services = <<>>
    /\ services_by_image = EmptyIndex
    /\ listCount = 0
    /\ inflight = {}
    /\ log = <<>>
    /\ opt = [filter_label |-> None]
    /\ externals = 0
    /\ call \in {PlanCall(s, e) : s \in PlanServices, e \in PlanEvents}

\* update_spec(&service, &event) and UpdateServiceOptions of process_one
ApplyUpdateSpec ==
    /\ call.fn = "update_spec"
    /\ ~call.done
    /\ call' = [call EXCEPT !.done = TRUE,
                            !.ret = [spec |-> UpdateSpec(call.arg.service, call.arg.event),
                                     version |-> VersionToken(call.arg.service)]]
    /\ UNCHANGED <<pc, queue, sent, batch, idx, swarm, services, services_by_image,
                   listCount, inflight, log, opt, externals>>

NextPlan == ApplyUpdateSpec

SpecPlan == InitPlan /\ [][NextPlan]_vars

Planned == call.fn = "update_spec" /\ call.done

\* The image an event pins
PinnedBy(e) ==
    e.account_id \o <<".dkr.ecr.">> \o e.region \o <<".amazonaws.com/">>
        \o e.repository_name \o <<":">> \o e.image_tag \o <<"@">> \o e.image_digest

\* C13 as stated: for every matched service, with or without a previous image
\* or a container section, the new spec has the image image()@digest, and its
\* forced-redeploy marker is the listed version, the token of the update.
C13_Original ==
    Planned =>
        /\ call.ret.spec.image = Some(PinnedBy(call.arg.event))
        /\ call.ret.spec.force_update = Some(call.arg.service.version)
        /\ call.ret.version = call.arg.service.version

\* C13 amended: for a service whose spec has a container section the new spec
\* has the image image()@digest, whatever the previous image, none included; a
\* spec without a container section stays without one and without an image;
\* in both cases the forced-redeploy marker is the listed version, the token
\* of the update.
C13_PinsImage ==
    Planned =>
        /\ call.arg.service.spec.has_container
              => /\ call.ret.spec.has_container
                 /\ call.ret.spec.image = Some(PinnedBy(call.arg.event))
        /\ ~call.arg.service.spec.has_container
              => /\ ~call.ret.spec.has_container
                 /\ call.ret.spec.image = None
        /\ call.ret.spec.force_update = Some(call.arg.service.version)
        /\ call.ret.version = call.arg.service.version

\* C13 witness: a service at version 2 with a container section and no image
\* got the pinned image and the marker 2
C13_Witness ==
    /\ Planned
    /\ call.arg.service.version = 2
    /\ call.arg.service.spec.has_container
    /\ call.arg.service.spec.image = None
    /\ call.ret.spec.image = Some(PinnedBy(call.arg.event))
    /\ call.ret.spec.force_update = Some(2)

\* C14: the new spec has the name, the labels and the container section (or
\* none) of the service's spec, and the service given to update_spec is as it
\* was.
C14_Frame ==
    /\ [](Planned =>
            /\ call.ret.spec.name = call.arg.service.spec.name
            /\ call.ret.spec.labels = call.arg.service.spec.labels
            /\ call.ret.spec.has_container = call.arg.service.spec.has_container
            /\ \A f \in DOMAIN call.ret.spec :
                  f \notin {"image", "force_update"}
                      => call.ret.spec[f] = call.arg.service.spec[f])
    /\ [][ call.fn = "update_spec" => call'.arg = call.arg ]_vars

\* C14 witness: a service with a stack-image label that carries a digest, the
\* label some and a declared image got a new image and kept its labels
C14_Witness ==
    /\ Planned
    /\ call.arg.service.spec.labels[STACK_IMAGE_LABEL] = Some(RefA \o <<"@", "sha512:1234">>)
    /\ call.arg.service.spec.labels["some"] = Some(<<"label">>)
    /\ call.arg.service.spec.image = Some(RefB)
    /\ call.ret.spec.image # call.arg.service.spec.image
    /\ call.ret.spec.labels = call.arg.service.spec.labels


----------------------------------------------------------------------------
(* docker_credentials_from_auth_token applied to tokens *)

MaxText == 3

\* base64::encode, as the test makes its token
RECURSIVE Base64Encode(_)
Base64Encode(bytes) ==
    IF Len(bytes) = 0 THEN <<>>
    ELSE LET b1 == bytes[1]
             b2 == IF Len(bytes) >= 2 THEN bytes[2] ELSE 0
             b3 == IF Len(bytes) >= 3 THEN bytes[3] ELSE 0
             n == b1 * 65536 + b2 * 256 + b3
             c1 == B64Alphabet[(n \div 262144) + 1]
             c2 == B64Alphabet[((n \div 4096) % 64) + 1]
             c3 == B64Alphabet[((n \div 64) % 64) + 1]
             c4 == B64Alphabet[(n % 64) + 1]
         IN  IF Len(bytes) = 1 THEN <<c1, c2, "=", "=">>
             ELSE IF Len(bytes) = 2 THEN <<c1, c2, c3, "=">>
             ELSE <<c1, c2, c3, c4>> \o Base64Encode(SubSeq(bytes, 4, Len(bytes)))

\* The bytes of ':', 'a', 'b' and a byte no UTF-8 text has
TextBytes == {58, 97, 98, 255}
FooBar == <<102, 111, 111, 58, 98, 97, 114>>
Texts ==
    UNION {[1..n -> TextBytes] : n \in 0..MaxText}
    \cup {FooBar, <<97, 58, 98, 58, 99>>}

\* Tokens that are not the base64 encoding of anything: a character outside
\* the alphabet, a single symbol, misplaced padding, bits left over
BadTokens ==
    {<<"!">>, <<"Z", "m", "9", "*">>, <<"Z">>, <<"Z", "m", "9", "v", "O">>,
     <<"Z", "g", "=">>, <<"=", "Z", "g", "=">>, <<"Z", "h", "=", "=">>, <<"Z", "m", "9">>}

CredsCall(token, text) ==
    [fn |-> "docker_credentials_from_auth_token", arg |-> token, text |-> text,
     done |-> FALSE, ret |-> [panic |-> FALSE, creds |-> NoCredentials]]

InitCreds ==
    /\ pc = "poll"
    /\ queue = <<>>
    /\ sent = 0
    /\ batch = <<>>
    /\ idx = 0
    /\ swarm = <<>>
    /\ services = <<>>
    /\ services_by_image = EmptyIndex
    /\ listCount = 0
    /\ inflight = {}
    /\ log = <<>>
    /\ opt = [filter_label |-> None]
    /\ externals = 0
    /\ call \in {CredsCall(Base64Encode(t), Some(t)) : t \in Texts}
                \cup {CredsCall(b, None) : b \in BadTokens}

ApplyCredentials ==
    /\ call.fn = "docker_credentials_from_auth_token"
    /\ ~call.done
    /\ call' = [call EXCEPT !.done = TRUE, !.ret = DockerCredentialsFromAuthToken(call.arg)]
    /\ UNCHANGED <<pc, queue, sent, batch, idx, swarm, services, services_by_image,
                   listCount, inflight, log, opt, externals>>

NextCreds == ApplyCredentials

SpecCreds == InitCreds /\ [][NextCreds]_vars

Decoded == call.fn = "docker_credentials_from_auth_token" /\ call.done

HasColon(text) == \E i \in 1..Len(text) : text[i] = 58

\* C15 as stated: a token that is not base64, or whose text has no colon, makes
\* the decoding fail with an error value; the process is not aborted.
C15_ErrorValue ==
    (Decoded /\ (call.text = None \/ ~HasColon(Unwrap(call.text)))) => ~call.ret.panic

\* C16: for the base64 encoding of a text with a colon the username is the
\* text before the first colon and the password all of the text after it.
C16_SplitAtFirstColon ==
    (Decoded /\ call.text # None /\ HasColon(Unwrap(call.text))
        /\ \A i \in 1..Len(Unwrap(call.text)) : Unwrap(call.text)[i] < 128) =>
        /\ ~call.ret.panic
        /\ Unwrap(call.text) = call.ret.creds.username \o <<58>> \o call.ret.creds.password
        /\ ~HasColon(call.ret.creds.username)

\* C16 witness: the token of "a:b:c" gave the username "a" and the password "b:c"
C16_Witness ==
    /\ Decoded
    /\ call.text = Some(<<97, 58, 98, 58, 99>>)
    /\ call.arg = <<"Y", "T", "p", "i", "O", "m", "M", "=">>
    /\ call.ret.creds = [username |-> <<97>>, password |-> <<98, 58, 99>>]


----------------------------------------------------------------------------
(* Properties of the loop's error handling and progress *)

\* A log entry that records the failure of a per-message call
IsFailure(e) ==
    \/ e.op \in {"auth_resp", "update_resp"} /\ e.res \in {"err", "stale"}
    \/ e.op = "delete" /\ e.res = "err"

C18_Failed ==
    \A k \in 1..Len(log) :
        IsFailure(log[k]) =>
            /\ pc = "failed"
            /\ k = Len(log)
            /\ inflight = {}
            /\ idx \in 1..Len(batch)
            /\ batch[idx].id = log[k].msg
            /\ \A i \in (idx + 1)..Len(batch) :
                  /\ \A j \in 1..Len(log) : log[j].msg # batch[i].id
                  /\ batch[i].id \in Ids(queue)

\* C18: a failed credential request, update or ack ends main(): the failure is
\* the last thing that happens, the later messages of the batch are never
\* decoded, updated or acked and stay on the queue, and no step, hence no
\* poll, follows.
C18_ErrorsTerminate ==
    /\ []C18_Failed
    /\ [][ pc # "failed" ]_vars

\* C18 witness: the ack of the first message of a batch of two failed, and the
\* second message was left untouched
C18_Witness ==
    /\ pc = "failed"
    /\ idx = 1
    /\ Len(batch) = 2
    /\ log[Len(log)].op = "delete" /\ log[Len(log)].res = "err"
    /\ log[Len(log)].msg = batch[1].id
    /\ Entries("begin", batch[2].id) = {}

\* A message was acked
Acked(m) == \E k \in Entries("delete", m) : log[k].res = "ok"

\* A collaborator call failed, or a message or a collaborator's answer was
\* malformed
Excused ==
    \/ pc = "failed"
    \/ \E k \in 1..Len(log) :
          /\ log[k].op = "panic"
          /\ log[k].res \in {"parse_ecr_event", "Region::from_str", "ecr_auth_for_event"}

\* C19 as stated: unless a collaborator call fails or a message is malformed,
\* the loop comes back to the poll again and again, and every message
\* received in a batch is eventually acked.
C19_NoTerminalState ==
    /\ []<>(pc = "poll" \/ Excused)
    /\ \A m \in MsgIds : (m \in Ids(batch)) ~> (Acked(m) \/ Excused)

C20_Requests ==
    /\ \A r \in inflight :
          r.k = "auth" =>
              /\ pc = "auth"
              /\ CurMessage.id = r.msg
              /\ IsTrigger(Unwrap(CurMessage.body))
              /\ Resolving(services, ReferenceOf(Unwrap(CurMessage.body))) # {}
              /\ r.scope.registry_ids = <<Unwrap(CurMessage.body).account.s>>
              /\ r.scope.region = Unwrap(CurMessage.body).region.s
    /\ \A k \in 1..Len(log) :
          log[k].op = "auth" =>
              /\ k > 1
              /\ log[k - 1].op = "begin" /\ log[k - 1].res = "match"
              /\ log[k - 1].msg = log[k].msg
    /\ \A k \in 1..Len(log) :
          log[k].op = "update" =>
              /\ k > 2
              /\ log[k - 1].op = "auth_resp" /\ log[k - 1].res = "ok"
              /\ log[k - 1].msg = log[k].msg
              /\ log[k - 2].op = "auth" /\ log[k - 2].msg = log[k].msg
    /\ \A k \in 1..Len(log) :
          (log[k].op = "auth_resp" /\ log[k].res = "err") =>
              Entries("update", log[k].msg) = {}
    /\ \A r \in inflight :
          r.k = "update" =>
              /\ \E k \in Entries("auth_resp", r.msg) : log[k].res = "ok"
              /\ \A k \in Entries("auth_resp", r.msg) : log[k].res = "ok"

\* C20: a credential request is in flight only for the message the loop is at,
\* whose event resolved to a listed service, and names the event's account and
\* region; an update call directly follows the successful answer to the
\* credential request of the same message, and a message whose credential
\* request failed has no update call, then or later.
C20_AuthBeforeUpdate ==
    /\ []C20_Requests
    /\ [][ (\E r \in inflight : r.k = "auth") /\ (\E k \in (Len(log) + 1)..Len(log') :
              log'[k].op = "auth_resp" /\ log'[k].res = "err")
           => (pc' = "failed" /\ inflight' = {} /\ swarm' = swarm) ]_vars

\* C20 witness: the credential request of the second message of a batch is in
\* flight, scoped to a region that is not the default one, after the update of
\* the first message followed its credentials
C20_Witness ==
    /\ pc = "auth"
    /\ idx = 2
    /\ Entries("update", batch[1].id) # {}
    /\ \E r \in inflight :
          /\ r.k = "auth" /\ r.msg = batch[2].id
          /\ r.scope.region # <<"us-east-1">>
          /\ r.scope.registry_ids # <<>>


----------------------------------------------------------------------------
(* Two messages of a batch for one service *)

\* Positions i < j of the batch whose messages both had an update call for
\* the same service
SameService ==
    {ij \in (1..Len(batch)) \X (1..Len(batch)) :
        /\ ij[1] < ij[2]
        /\ \E ka \in Entries("update", batch[ij[1]].id) :
           \E kb \in Entries("update", batch[ij[2]].id) : log[ka].svc = log[kb].svc}

\* The update call of the message at position i of the batch
UpdateOf(i) == log[CHOOSE k \in Entries("update", batch[i].id) : TRUE]

\* The second update was answered
Answered(j) == Entries("update_resp", batch[j].id) # {}

\* The tokens, the answer to the second update and what it leaves of the loop
\* and the queue
C21_SecondIsStale ==
    \A ij \in SameService :
        LET a == batch[ij[1]]
            b == batch[ij[2]]
            p == Pos(swarm, UpdateOf(ij[1]).svc)
        IN  /\ UpdateOf(ij[2]).token = UpdateOf(ij[1]).token
            /\ UpdateOf(ij[2]).token = services[Pos(services, UpdateOf(ij[1]).svc)].version
            /\ \E k \in Entries("update_resp", a.id) : log[k].res = "applied"
            /\ swarm[p].version > UpdateOf(ij[2]).token
            /\ \A k \in Entries("update_resp", b.id) :
                  /\ log[k].res \in {"stale", "err"}
                  /\ pc = "failed"
            /\ Entries("done", b.id) = {}
            /\ Entries("delete", b.id) = {}
            /\ b.id \in Ids(queue)
            /\ swarm[p].spec.image = UpdateOf(ij[1]).image

\* C21 as stated: with two trigger messages of a batch for the same service,
\* both update calls carry the token of the listing, the second is never
\* applied, the loop ends when it is answered, the second message stays on the
\* queue, and the service has the image reference@digest of the first message.
C21_Original ==
    /\ C21_SecondIsStale
    /\ \A ij \in SameService :
          swarm[Pos(swarm, UpdateOf(ij[1]).svc)].spec.image
              = Some(PinnedOf(Unwrap(batch[ij[1]].body)))

\* C21 amended: the same, where the service has the first message's
\* reference@digest when it has a container section, and no image at all, as
\* before, when it has none.
C21_StaleSecondUpdate ==
    /\ C21_SecondIsStale
    /\ \A ij \in SameService :
          LET s == swarm[Pos(swarm, UpdateOf(ij[1]).svc)].spec
          IN  IF s.has_container
              THEN s.image = Some(PinnedOf(Unwrap(batch[ij[1]].body)))
              ELSE s.image = None

\* C21 witness: the second update of a batch for the same service, of another
\* digest, was rejected as stale, and the service is pinned to the first digest
C21_Witness ==
    /\ pc = "failed"
    /\ SameService = {<<1, 2>>}
    /\ \E k \in Entries("update_resp", batch[2].id) : log[k].res = "stale"
    /\ Unwrap(batch[1].body).digest # Unwrap(batch[2].body).digest
    /\ swarm[Pos(swarm, UpdateOf(1).svc)].spec.image = Some(PinnedOf(Unwrap(batch[1].body)))
    /\ batch[2].id \in Ids(queue)

====
